---- MODULE Spec2Model ----
(***************************************************************************)
(* A model of tudu's store commands (src/todo/command.rs,                  *)
(* src/project/command.rs), of the hierarchy organizers                    *)
(* (src/todo/group.rs), of the persisted encoding of the enums             *)
(* (src/todo/sql.rs), of the project id lookup (src/arg.rs, src/config.rs) *)
(* and of the colour codec (src/display/hex.rs).                           *)
(*                                                                         *)
(* Spec          the store under new / update / close todo                 *)
(* SpecList      the store under new / close / list todo                   *)
(* SpecTime      update / close todo with a clock that advances            *)
(* SpecProject   todos and projects under new / update / close / view      *)
(* SpecMain      main: the commands of Spec typed with and without prompt  *)
(* SpecView      view project over todos of several priorities             *)
(* SpecOrganize  the two organizers applied to bounded inputs              *)
(* SpecCodec     to_sql / from_sql applied to variants and stored integers *)
(* SpecConfig    parse_required_project_id and the search for .tudu        *)
(* SpecHex       HexColor::to_hex / from_hex applied to colours and strings*)
(* SpecTx        a new todo and an update todo, or two of one, at once     *)
(***************************************************************************)
EXTENDS Integers, Sequences, FiniteSets, TLC

VARIABLES
    todos,      \* the todos table: todo id -> Todo row
    projects,   \* the projects table: project id -> Project row
    clock,      \* the last reading of chrono::Utc::now()
    connected,  \* whether the last invocation opened a store connection
    cmd,        \* the command line of the last invocation, as the user typed it
    result,     \* how the last invocation ended
    listed,     \* the rows the last list todo / view todo loaded
    orgIn,      \* the Vec<Todo> handed to organize_todos_hierarchically
    orgOut,     \* the Vec<TodoGroup> it returned
    orgFlat,    \* the Vec<FlatTodo> organize_todos_flat_hierarchically returned
    orgPc,      \* "idle" | "input" | "done" | "flat"
    codecIn,    \* the variant or the stored integer handed to the codec
    codecOut,   \* what to_sql / from_sql made of it
    codecPc,    \* "idle" | "input" | "done"
    cfgIn,      \* the --project_id option, the current directory and the .tudu files
    cfgDir,     \* current_dir of the loop of find_tudu_file_from
    cfgOut,     \* what the search found and what parse_required_project_id returned
    cfgPc,      \* "idle" | "parse" | "find" | "read" | "done"
    hexIn,      \* the colour or the string handed to HexColor
    hexOut,     \* what to_hex / from_hex made of it
    hexPc,      \* "idle" | "input" | "done"
    txIn,       \* the journal mode and the command lines of two invocations at once
    txPc,       \* of each of them: "start" | "checked" | "written" | "done"
    txOut       \* of each of them: its lock, the rows it read and wrote, its result

vars == <<todos, projects, clock, connected, cmd, result, listed, orgIn, orgOut,
          orgFlat, orgPc, codecIn, codecOut, codecPc, cfgIn, cfgDir, cfgOut,
          cfgPc,
          hexIn, hexOut, hexPc,
          txIn, txPc, txOut>>

storeVars == <<todos, projects, clock, connected, cmd, result, listed>>
orgVars == <<orgIn, orgOut, orgFlat, orgPc>>
codecVars == <<codecIn, codecOut, codecPc>>
cfgVars == <<cfgIn, cfgDir, cfgOut, cfgPc>>
hexVars == <<hexIn, hexOut, hexPc>>
txVars == <<txIn, txPc, txOut>>

----------------------------------------------------------------------------
(* Bounds *)

\* the most rows the todos table holds
MaxTodos == 2

\* the longest input handed to the organizer
MaxLen == 3

\* the last instant the clock reaches
MaxClock == 2

\* the stored integers read back range over -MaxRaw..MaxRaw
MaxRaw == 12

\* the deepest directory the search for .tudu starts from
MaxDepth == 2

\* the longest string over the whole alphabet handed to from_hex
MaxHexLen == 4

----------------------------------------------------------------------------
(* Option<T>::None, and the persisted ordinals of the two enums *)

None == -1

ToDo == 0
InProgress == 1
Done == 2
Blocked == 3
OnHold == 4
Cancelled == 5

Low == 0
Medium == 1
High == 2
Urgent == 3

TodoStatus == {ToDo, InProgress, Done, Blocked, OnHold, Cancelled}
TodoPriority == {Low, Medium, High, Urgent}

\* impl Default for TodoStatus / TodoPriority
DefaultStatus == ToDo
DefaultPriority == Medium

\* Option::unwrap_or_default on an Option<TodoPriority>
UnwrapOrDefaultPriority(opt) == IF opt = None THEN DefaultPriority ELSE opt

----------------------------------------------------------------------------
(* The command line.  clap fills an absent option that declares a          *)
(* default_value with that default before the handler reads it.            *)

\* TuduArg::Priority: .default_value("low")
PriorityArg(given) == IF given = None THEN Low ELSE given

\* TuduArg::Status: .default_value("to-do")
StatusArg(given) == IF given = None THEN ToDo ELSE given

\* what the user may type (an absent option is None)
ProjectIds == {1}
AllProjectIds == {1, 2}
ProjectOpts == {None} \cup AllProjectIds
TodoIds == 1..MaxTodos
FirstTodo == {1}
ParentOpts == {None} \cup TodoIds
FirstParentOpts == {None} \cup FirstTodo
PriorityOpts == {None, High}
StatusOpts == {None, Done}
CompletionOpts == {None, InProgress, Done, Cancelled}
DueDates == {1, 2, 3}
DueDateOpts == {None} \cup DueDates
Absent == {None}

\* the free text given as the prompt argument, the texts numbered
PromptOpts == {None, 1}

Command(op, id, project_id, parent_id, status, priority, due_date, gt, lt) ==
    [op |-> op, id |-> id, project_id |-> project_id, parent_id |-> parent_id,
     status |-> status, priority |-> priority, due_date |-> due_date,
     greater_than |-> gt, less_than |-> lt, prompt |-> None]

NoCommand == Command("none", None, None, None, None, None, None, FALSE, FALSE)

\* the command line c with the prompt argument given as well
Prompted(c, prompt_arg) == [c EXCEPT !.prompt = prompt_arg]

----------------------------------------------------------------------------
(* The clock and the connection *)

\* how far a reading of chrono::Utc::now() lies after the reading before it
NoTick == {0}
Ticks == {0, 1}

\* Whether the connection enforces the foreign keys of the schema.
\* database_connection() establishes the connection and sets no pragma, so
\* this is the compile-time default of the SQLite library the build links.
ForeignKeys == BOOLEAN

\* what the store answers to a write of a row that references project_id
ProjectReference(projs, project_id, enforced) ==
    IF enforced /\ project_id \notin DOMAIN projs
    THEN "DatabaseError: FOREIGN KEY constraint failed"
    ELSE "Ok"

----------------------------------------------------------------------------
(* new todo *)

\* parse_new_todo_command_matches
NewTodo(c) ==
    [project_id |-> c.project_id,
     parent_id |-> c.parent_id,
     priority |-> UnwrapOrDefaultPriority(PriorityArg(c.priority)),
     due_date |-> c.due_date,
     status |-> DefaultStatus,
     updated_at |-> None,
     completed_at |-> None]

\* the id the store assigns to an inserted row
NextTodoId(store) ==
    IF DOMAIN store = {} THEN 1
    ELSE 1 + CHOOSE m \in DOMAIN store : \A k \in DOMAIN store : k <= m

\* insert_into(todos).values(new_todo).get_result
InsertTodo(store, new_todo) ==
    LET id == NextTodoId(store)
    IN  [k \in DOMAIN store \cup {id} |->
            IF k = id
            THEN [id |-> id,
                  project_id |-> new_todo.project_id,
                  parent_id |-> new_todo.parent_id,
                  status |-> new_todo.status,
                  priority |-> new_todo.priority,
                  due_date |-> new_todo.due_date,
                  updated_at |-> new_todo.updated_at,
                  completed_at |-> new_todo.completed_at]
            ELSE store[k]]


\* NewTodoOutcome without the read of the parent's own parent_id
NewTodoOutcomeUnchecked(store, new_todo) ==
    IF new_todo.parent_id # None /\ new_todo.parent_id \notin DOMAIN store
    THEN "DatabaseError"
    ELSE "Ok"

\* the outcome of the parent check in the transaction of
\* handle_new_todo_command: the error it returns, or "Ok"
NewTodoOutcome(store, new_todo) ==
    IF new_todo.parent_id # None
    THEN IF new_todo.parent_id \notin DOMAIN store
         THEN "DatabaseError"           \* .first() finds no row
         ELSE IF store[new_todo.parent_id].parent_id # None
              THEN "UnSupportedError"   \* "Sub sub todos are not supported."
              ELSE "Ok"
    ELSE "Ok"


\* a transaction that inserts the row whatever the outcome is
NewTodoRowsInsertAlways(store, new_todo, outcome) == InsertTodo(store, new_todo)

\* the todos table the transaction of handle_new_todo_command leaves: an Err
\* returns before the insert, or is the insert's own failure
NewTodoRows(store, new_todo, outcome) ==
    IF outcome = "Ok" THEN InsertTodo(store, new_todo) ELSE store

handle_new_todo_command(c) ==
    \E enforced \in ForeignKeys :
        LET new_todo == NewTodo(c)
            checked == NewTodoOutcome(todos, new_todo)
            outcome == IF checked = "Ok"
                       THEN ProjectReference(projects, new_todo.project_id, enforced)
                       ELSE checked
        IN  /\ outcome = "Ok" => NextTodoId(todos) <= MaxTodos
            /\ cmd' = c
            /\ connected' = TRUE
            /\ result' = outcome
            /\ todos' = NewTodoRows(todos, new_todo, outcome)
            /\ listed' = {}
            /\ UNCHANGED <<projects, clock>>

NewTodoCmd(project_ids, parents, priorities, due_dates) ==
    \E project_id \in project_ids, parent_id \in parents,
       priority \in priorities, due_date \in due_dates :
        handle_new_todo_command(
            Command("new_todo", None, project_id, parent_id, None, priority,
                    due_date, FALSE, FALSE))

----------------------------------------------------------------------------
(* update todo *)


\* a completed_at that is written whatever the status is
CompletedAtAnyStatus(status, now) == now

\* the completed_at of the changeset: a reading of the clock when the status
\* is Done or Cancelled, None otherwise
CompletedAt(status, now) ==
    IF status \in {Done, Cancelled} THEN now ELSE None

\* parse_update_todo_command_matches: the changeset; a None field is left
\* out of the UPDATE (AsChangeset skips None)
UpdateTodo(c, updated_now, completed_now) ==
    [id |-> c.id,
     project_id |-> c.project_id,
     parent_id |-> c.parent_id,
     status |-> StatusArg(c.status),
     priority |-> PriorityArg(c.priority),
     due_date |-> c.due_date,
     updated_at |-> updated_now,
     completed_at |-> CompletedAt(StatusArg(c.status), completed_now)]

ApplyUpdateTodo(row, u) ==
    [row EXCEPT
        !.project_id = IF u.project_id = None THEN @ ELSE u.project_id,
        !.parent_id = IF u.parent_id = None THEN @ ELSE u.parent_id,
        !.status = IF u.status = None THEN @ ELSE u.status,
        !.priority = IF u.priority = None THEN @ ELSE u.priority,
        !.due_date = IF u.due_date = None THEN @ ELSE u.due_date,
        !.updated_at = u.updated_at,
        !.completed_at = IF u.completed_at = None THEN @ ELSE u.completed_at]

\* the outcome of the UPDATE ... WHERE id = update_todo.id
UpdateTodoOutcome(store, projs, u, enforced) ==
    IF u.id \notin DOMAIN store
    THEN "DatabaseError"                \* get_result finds no row
    ELSE IF u.project_id # None
         THEN ProjectReference(projs, u.project_id, enforced)
         ELSE "Ok"

handle_update_todo_command(c, ticks) ==
    \E d1 \in ticks, d2 \in ticks, enforced \in ForeignKeys :
        LET updated_now == clock + d1
            completed_now ==
                IF StatusArg(c.status) \in {Done, Cancelled}
                THEN updated_now + d2
                ELSE updated_now
            update_todo == UpdateTodo(c, updated_now, completed_now)
            outcome == UpdateTodoOutcome(todos, projects, update_todo, enforced)
        IN  /\ completed_now <= MaxClock
            /\ clock' = completed_now
            /\ cmd' = c
            /\ connected' = TRUE
            /\ result' = outcome
            /\ todos' = IF outcome = "Ok"
                        THEN [todos EXCEPT
                                ![update_todo.id] = ApplyUpdateTodo(@, update_todo)]
                        ELSE todos
            /\ listed' = {}
            /\ UNCHANGED projects

\* A parent_id that names no stored row is not drawn: whether the store
\* refuses it depends on the schema of the migrations, which the handler
\* does not decide.
UpdateTodoCmd(ids, project_ids, parents, statuses, priorities, due_dates, ticks) ==
    \E id \in ids, project_id \in project_ids, parent_id \in parents,
       status \in statuses, priority \in priorities, due_date \in due_dates :
        /\ parent_id # None => parent_id \in DOMAIN todos
        /\ handle_update_todo_command(
                Command("update_todo", id, project_id, parent_id, status,
                        priority, due_date, FALSE, FALSE),
                ticks)

----------------------------------------------------------------------------
(* close todo *)

\* parse_close_todo_command_matches
CloseTodo(c, updated_now, completed_now) ==
    [id |-> c.id,
     updated_at |-> updated_now,
     status |-> Done,
     completed_at |-> completed_now]

handle_close_todo_command(c, ticks) ==
    \E d1 \in ticks, d2 \in ticks :
        LET updated_now == clock + d1
            completed_now == updated_now + d2
            close_todo == CloseTodo(c, updated_now, completed_now)
        IN  /\ completed_now <= MaxClock
            /\ clock' = completed_now
            /\ cmd' = c
            /\ connected' = TRUE
            /\ IF close_todo.id \in DOMAIN todos
               THEN /\ todos' = [todos EXCEPT
                                    ![close_todo.id].status = close_todo.status,
                                    ![close_todo.id].updated_at = close_todo.updated_at,
                                    ![close_todo.id].completed_at = close_todo.completed_at]
                    /\ result' = "Ok"
               ELSE /\ todos' = todos
                    /\ result' = "DatabaseError"
            /\ listed' = {}
            /\ UNCHANGED projects

CloseTodoCmd(ids, ticks) ==
    \E id \in ids :
        handle_close_todo_command(
            Command("close_todo", id, None, None, None, None, None, FALSE, FALSE),
            ticks)

----------------------------------------------------------------------------
(* view todo *)

\* the transaction of handle_view_todo_command: the todo, its direct
\* children and the project of the todo
handle_view_todo_command(c) ==
    /\ cmd' = c
    /\ connected' = TRUE
    /\ IF c.id \in DOMAIN todos /\ todos[c.id].project_id \in DOMAIN projects
       THEN /\ listed' = {todos[c.id]} \cup
                         {todos[k] : k \in {j \in DOMAIN todos :
                                                todos[j].parent_id = c.id}}
            /\ result' = "Ok"
       ELSE /\ listed' = {}
            /\ result' = "DatabaseError"    \* a .first() finds no row
    /\ UNCHANGED <<todos, projects, clock>>

ViewTodoCmd(ids) ==
    \E id \in ids :
        handle_view_todo_command(
            Command("view_todo", id, None, None, None, None, None, FALSE, FALSE))

----------------------------------------------------------------------------
(* list todo *)

\* parse_list_todo_command_matches
ListTodoFilters(c) ==
    [due_date |-> c.due_date,
     priority |-> PriorityArg(c.priority),
     status |-> StatusArg(c.status),
     greater_than |-> c.greater_than,
     less_than |-> c.less_than]

\* the due_date predicate with the two flags tested in the other order
DueDateFilterLessThanFirst(t, filters) ==
    IF filters.due_date # None
    THEN /\ t.due_date # None
         /\ IF filters.less_than THEN t.due_date < filters.due_date
            ELSE IF filters.greater_than THEN t.due_date > filters.due_date
            ELSE t.due_date = filters.due_date
    ELSE TRUE

\* the due_date predicate of the boxed query; a NULL due_date satisfies no
\* comparison
DueDateFilter(t, filters) ==
    IF filters.due_date # None
    THEN /\ t.due_date # None
         /\ IF filters.greater_than THEN t.due_date > filters.due_date
            ELSE IF filters.less_than THEN t.due_date < filters.due_date
            ELSE t.due_date = filters.due_date
    ELSE TRUE

PriorityFilter(t, filters) ==
    IF filters.priority # None THEN t.priority = filters.priority ELSE TRUE

StatusFilter(t, filters) ==
    IF filters.status # None THEN t.status = filters.status ELSE TRUE

\* query.load: the rows that satisfy every filter added to the query
LoadTodos(store, filters) ==
    {store[k] : k \in {j \in DOMAIN store :
                        /\ DueDateFilter(store[j], filters)
                        /\ PriorityFilter(store[j], filters)
                        /\ StatusFilter(store[j], filters)}}

handle_list_todo_command(c) ==
    /\ cmd' = c
    /\ connected' = TRUE
    /\ listed' = LoadTodos(todos, ListTodoFilters(c))
    /\ result' = "Ok"
    /\ UNCHANGED <<todos, projects, clock>>

ListTodoCmd ==
    \E due_date \in DueDateOpts, priority \in PriorityOpts, status \in StatusOpts,
       gt \in BOOLEAN, lt \in BOOLEAN :
        handle_list_todo_command(
            Command("list_todo", None, None, None, status, priority, due_date,
                    gt, lt))


----------------------------------------------------------------------------
(* new / update / close project *)

\* the id the store assigns to an inserted project
NextProjectId(projs) ==
    IF DOMAIN projs = {} THEN 1
    ELSE 1 + CHOOSE m \in DOMAIN projs : \A k \in DOMAIN projs : k <= m

\* insert_into(projects).values(new_project).get_result; NewProject carries
\* no timestamp, None stands for the column default of the store
InsertProject(projs, id) ==
    [k \in DOMAIN projs \cup {id} |->
        IF k = id THEN [id |-> id, updated_at |-> None] ELSE projs[k]]

\* project ids up to limit are assigned
handle_new_project_command(c, limit) ==
    /\ NextProjectId(projects) <= limit
    /\ cmd' = c
    /\ connected' = TRUE
    /\ projects' = InsertProject(projects, NextProjectId(projects))
    /\ result' = "Ok"
    /\ listed' = {}
    /\ UNCHANGED <<todos, clock>>

NewProjectCmd(limit) ==
    handle_new_project_command(
        Command("new_project", None, None, None, None, None, None, FALSE, FALSE),
        limit)

\* parse_update_project_command_matches
UpdateProject(c, updated_now) == [id |-> c.id, updated_at |-> updated_now]

handle_update_project_command(c, ticks) ==
    \E d \in ticks :
        LET update_project == UpdateProject(c, clock + d)
        IN  /\ update_project.updated_at <= MaxClock
            /\ clock' = update_project.updated_at
            /\ cmd' = c
            /\ connected' = TRUE
            /\ IF update_project.id \in DOMAIN projects
               THEN /\ projects' = [projects EXCEPT
                            ![update_project.id].updated_at =
                                update_project.updated_at]
                    /\ result' = "Ok"
               ELSE /\ projects' = projects
                    /\ result' = "DatabaseError"   \* get_result finds no row
            /\ listed' = {}
            /\ UNCHANGED todos

UpdateProjectCmd(ids, ticks) ==
    \E id \in ids :
        handle_update_project_command(
            Command("update_project", id, None, None, None, None, None,
                    FALSE, FALSE),
            ticks)

\* parse_close_project_command_matches
CloseProject(c) == [id |-> c.id]

\* What the DELETE does when todos reference the project: without enforced
\* foreign keys the todos stay; with them the schema's ON DELETE action
\* either refuses the delete or deletes the todos too.
DeleteActions(store, id) ==
    IF \E k \in DOMAIN store : store[k].project_id = id
    THEN {"unenforced", "restrict", "cascade"}
    ELSE {"unenforced"}

\* delete(projects.filter(id.eq(close_project.id))).execute: the number of
\* rows deleted, which is 0 and no error when no row has the id
handle_close_project_command(c) ==
    \E on_delete \in DeleteActions(todos, c.id) :
        LET close_project == CloseProject(c)
        IN  /\ cmd' = c
            /\ connected' = TRUE
            /\ IF on_delete = "restrict"
               THEN /\ result' = "DatabaseError: FOREIGN KEY constraint failed"
                    /\ UNCHANGED <<projects, todos>>
               ELSE /\ result' = "Ok"
                    /\ projects' = [k \in DOMAIN projects \ {close_project.id} |->
                                        projects[k]]
                    /\ todos' = IF on_delete = "cascade"
                                THEN [k \in {j \in DOMAIN todos :
                                        todos[j].project_id # close_project.id} |->
                                            todos[k]]
                                ELSE todos
            /\ listed' = {}
            /\ UNCHANGED clock

CloseProjectCmd(ids) ==
    \E id \in ids :
        handle_close_project_command(
            Command("close_project", id, None, None, None, None, None,
                    FALSE, FALSE))

----------------------------------------------------------------------------
(* The store specifications.  Every invocation is one process that runs   *)
(* one handler inside one transaction and exits.                           *)

\* no colour and no string has been handed to HexColor
HexIdle ==
    /\ hexIn = None
    /\ hexOut = None
    /\ hexPc = "idle"

\* no two invocations run at once
TxIdle ==
    /\ txIn = None
    /\ txPc = None
    /\ txOut = None

Init ==
    /\ todos = <<>>
    /\ projects = <<>>
    /\ clock = 0
    /\ connected = FALSE
    /\ cmd = NoCommand
    /\ result = "none"
    /\ listed = {}
    /\ orgIn = <<>>
    /\ orgOut = <<>>
    /\ orgFlat = <<>>
    /\ orgPc = "idle"
    /\ codecIn = None
    /\ codecOut = None
    /\ codecPc = "idle"
    /\ cfgIn = None
    /\ cfgDir = <<>>
    /\ cfgOut = None
    /\ cfgPc = "idle"
    /\ HexIdle
    /\ TxIdle

idleVars == <<orgVars, codecVars, cfgVars, hexVars, txVars>>

\* one project, under which every todo of Spec, SpecList and SpecTime is
\* created
NewProjectStep == NewProjectCmd(1) /\ UNCHANGED idleVars

\* Spec: the hierarchy commands; the options that do not touch parent_id are
\* left absent
NewTodoStep ==
    NewTodoCmd(DOMAIN projects, ParentOpts, Absent, Absent) /\ UNCHANGED idleVars
UpdateTodoStep ==
    /\ UpdateTodoCmd(TodoIds, Absent, ParentOpts, Absent, Absent, Absent, NoTick)
    /\ UNCHANGED idleVars
CloseTodoStep == CloseTodoCmd(TodoIds, NoTick) /\ UNCHANGED idleVars

Next ==
    \/ NewProjectStep
    \/ NewTodoStep
    \/ UpdateTodoStep
    \/ CloseTodoStep

Spec == Init /\ [][Next]_vars

\* SpecList: main todos with every priority / due_date option, the first
\* one closed, listed under every combination of filters
NewMainTodoStep ==
    NewTodoCmd(DOMAIN projects, Absent, PriorityOpts, DueDateOpts)
        /\ UNCHANGED idleVars
CloseFirstTodoNowStep == CloseTodoCmd(FirstTodo, NoTick) /\ UNCHANGED idleVars
ListTodoStep == ListTodoCmd /\ UNCHANGED idleVars

NextList ==
    \/ NewProjectStep
    \/ NewMainTodoStep
    \/ CloseFirstTodoNowStep
    \/ ListTodoStep

SpecList == Init /\ [][NextList]_vars

\* SpecTime: the first todo updated with every status option and closed,
\* each reading of the clock at or one tick after the reading before it
NewPlainTodoStep ==
    NewTodoCmd(DOMAIN projects, Absent, Absent, Absent) /\ UNCHANGED idleVars
UpdateStatusStep ==
    /\ UpdateTodoCmd(FirstTodo, Absent, Absent, CompletionOpts, Absent, Absent, Ticks)
    /\ UNCHANGED idleVars
CloseFirstTodoStep == CloseTodoCmd(FirstTodo, Ticks) /\ UNCHANGED idleVars

NextTime ==
    \/ NewProjectStep
    \/ NewPlainTodoStep
    \/ UpdateStatusStep
    \/ CloseFirstTodoStep

SpecTime == Init /\ [][NextTime]_vars

\* main that dispatches without looking at the prompt argument
PromptOutcomeIgnored(prompt_arg) == "dispatch"

\* main: the test of the prompt argument before anything else is done
PromptOutcome(prompt_arg) ==
    IF prompt_arg # None THEN "InProgressError" ELSE "dispatch"

\* main: with a prompt, error_message(InProgressError) and return; without,
\* the subcommand is dispatched to its handler
main(c, dispatch) ==
    IF PromptOutcome(c.prompt) = "InProgressError"
    THEN /\ cmd' = c
         /\ result' = "InProgressError"
         /\ connected' = FALSE
         /\ listed' = {}
         /\ UNCHANGED <<todos, projects, clock>>
    ELSE dispatch

\* SpecMain: the commands of Spec, each typed with and without a prompt
MainNewProjectStep ==
    /\ \E prompt_arg \in PromptOpts :
        LET c == Prompted(Command("new_project", None, None, None, None, None,
                                  None, FALSE, FALSE), prompt_arg)
        IN  main(c, handle_new_project_command(c, 1))
    /\ UNCHANGED idleVars

MainNewTodoStep ==
    /\ \E prompt_arg \in PromptOpts, project_id \in DOMAIN projects,
          parent_id \in ParentOpts :
        LET c == Prompted(Command("new_todo", None, project_id, parent_id, None,
                                  None, None, FALSE, FALSE), prompt_arg)
        IN  main(c, handle_new_todo_command(c))
    /\ UNCHANGED idleVars

MainUpdateTodoStep ==
    /\ \E prompt_arg \in PromptOpts, id \in TodoIds, parent_id \in ParentOpts :
        LET c == Prompted(Command("update_todo", id, None, parent_id, None,
                                  None, None, FALSE, FALSE), prompt_arg)
        IN  /\ parent_id # None => parent_id \in DOMAIN todos
            /\ main(c, handle_update_todo_command(c, NoTick))
    /\ UNCHANGED idleVars

MainCloseTodoStep ==
    /\ \E prompt_arg \in PromptOpts, id \in TodoIds :
        LET c == Prompted(Command("close_todo", id, None, None, None, None,
                                  None, FALSE, FALSE), prompt_arg)
        IN  main(c, handle_close_todo_command(c, NoTick))
    /\ UNCHANGED idleVars

NextMain ==
    \/ MainNewProjectStep
    \/ MainNewTodoStep
    \/ MainUpdateTodoStep
    \/ MainCloseTodoStep

SpecMain == Init /\ [][NextMain]_vars

\* SpecProject: two projects created, updated and closed, todos created
\* under and moved to every project id, existing or not, with the first
\* todo as the only parent named
NewProjectsStep == NewProjectCmd(Cardinality(AllProjectIds)) /\ UNCHANGED idleVars
UpdateProjectStep == UpdateProjectCmd(AllProjectIds, NoTick) /\ UNCHANGED idleVars
CloseProjectStep == CloseProjectCmd(AllProjectIds) /\ UNCHANGED idleVars
NewProjectTodoStep ==
    NewTodoCmd(AllProjectIds, FirstParentOpts, Absent, Absent) /\ UNCHANGED idleVars
MoveTodoStep ==
    /\ UpdateTodoCmd(FirstTodo, ProjectOpts, FirstParentOpts, Absent, Absent, Absent,
                     NoTick)
    /\ UNCHANGED idleVars
ViewTodoStep == ViewTodoCmd(FirstTodo) /\ UNCHANGED idleVars

NextProject ==
    \/ NewProjectsStep
    \/ UpdateProjectStep
    \/ CloseProjectStep
    \/ NewProjectTodoStep
    \/ MoveTodoStep
    \/ CloseFirstTodoNowStep
    \/ ViewTodoStep

SpecProject == Init /\ [][NextProject]_vars

----------------------------------------------------------------------------
(* organize_todos_hierarchically *)

\* TodoGroup::new
TodoGroup(main_todo) == [main_todo |-> main_todo, subtodos |-> <<>>]


\* add_subtodo that assigns the subtodo list instead of pushing to it
add_subtodo_assign(group, subtodo) ==
    [group EXCEPT !.subtodos = <<subtodo>>]

\* TodoGroup::add_subtodo
add_subtodo(group, subtodo) ==
    [group EXCEPT !.subtodos = Append(@, subtodo)]


\* the separation loop without its else: every record is pushed to main_todos
SeparateEveryTodo(ts) == ts

\* the separation loop promoting a record whose parent is not in the input
SeparatePromoteOrphans(ts) ==
    SelectSeq(ts, LAMBDA t :
        \/ t.parent_id = None
        \/ \A i \in DOMAIN ts : ts[i].id # t.parent_id)

\* the records pushed to main_todos, in input order
SeparateMainTodos(ts) == SelectSeq(ts, LAMBDA t : t.parent_id = None)

\* subtodos_map: parent_id -> the records pushed under it, in input order
SeparateSubtodos(ts) ==
    [p \in {ts[i].parent_id : i \in DOMAIN ts} \ {None} |->
        SelectSeq(ts, LAMBDA t : t.parent_id = p)]

\* Ord::cmp on the ordinals, and Ordering::then_with
OrdCmp(x, y) == IF x < y THEN "Less" ELSE IF x > y THEN "Greater" ELSE "Equal"
then_with(first, second) == IF first = "Equal" THEN second ELSE first

\* the main closure with the priorities not swapped: lower priority first
CompareMainTodosAscending(a, b) ==
    then_with(OrdCmp(a.priority, b.priority), OrdCmp(a.status, b.status))

\* the closure main_todos is sorted by
CompareMainTodos(a, b) ==
    then_with(OrdCmp(b.priority, a.priority), OrdCmp(a.status, b.status))

\* the subtodo closure with the priorities not swapped
CompareSubtodosAscending(a, b) ==
    then_with(OrdCmp(a.priority, b.priority), OrdCmp(a.status, b.status))

\* the closure every subtodos bucket is sorted by
CompareSubtodos(a, b) ==
    then_with(OrdCmp(b.priority, a.priority), OrdCmp(a.status, b.status))

\* slice::sort_by, a stable sort: the indices 1..n of the slice in sorted
\* order, where ord[i, j] is the closure's answer for elements i and j.  Each
\* element is placed behind the elements that do not compare Greater to it.
RECURSIVE SortedIndices(_, _)
SortedIndices(n, ord) ==
    IF n = 0 THEN <<>>
    ELSE LET prev == SortedIndices(n - 1, ord)
             k == Cardinality({p \in DOMAIN prev : ord[prev[p], n] # "Greater"})
         IN  SubSeq(prev, 1, k) \o <<n>> \o SubSeq(prev, k + 1, Len(prev))

\* an unstable sort of main_todos: equal elements come out in reverse order
SortMainTodosUnstable(main_todos) ==
    LET ord == [i \in DOMAIN main_todos, j \in DOMAIN main_todos |->
                    then_with(CompareMainTodos(main_todos[i], main_todos[j]),
                              OrdCmp(j, i))]
        idx == SortedIndices(Len(main_todos), ord)
    IN  [k \in DOMAIN main_todos |-> main_todos[idx[k]]]

SortMainTodos(main_todos) ==
    LET ord == [i \in DOMAIN main_todos, j \in DOMAIN main_todos |->
                    CompareMainTodos(main_todos[i], main_todos[j])]
        idx == SortedIndices(Len(main_todos), ord)
    IN  [k \in DOMAIN main_todos |-> main_todos[idx[k]]]

\* an unstable sort of a bucket: equal elements come out in reverse order
SortSubtodosUnstable(subtodos) ==
    LET ord == [i \in DOMAIN subtodos, j \in DOMAIN subtodos |->
                    then_with(CompareSubtodos(subtodos[i], subtodos[j]),
                              OrdCmp(j, i))]
        idx == SortedIndices(Len(subtodos), ord)
    IN  [k \in DOMAIN subtodos |-> subtodos[idx[k]]]

SortSubtodos(subtodos) ==
    LET ord == [i \in DOMAIN subtodos, j \in DOMAIN subtodos |->
                    CompareSubtodos(subtodos[i], subtodos[j])]
        idx == SortedIndices(Len(subtodos), ord)
    IN  [k \in DOMAIN subtodos |-> subtodos[idx[k]]]

\* group.add_subtodo for every subtodo of the removed bucket
RECURSIVE AddSubtodos(_, _)
AddSubtodos(group, subtodos) ==
    IF subtodos = <<>> THEN group
    ELSE AddSubtodos(add_subtodo(group, Head(subtodos)), Tail(subtodos))

\* the loop that creates the TodoGroups; a bucket is removed from
\* subtodos_map when it is handed to a group
RECURSIVE CreateTodoGroups(_, _)
CreateTodoGroups(main_todos, subtodos_map) ==
    IF main_todos = <<>> THEN <<>>
    ELSE LET group == TodoGroup(Head(main_todos))
             id == group.main_todo.id
         IN  IF id \in DOMAIN subtodos_map
             THEN <<AddSubtodos(group, subtodos_map[id])>> \o
                  CreateTodoGroups(Tail(main_todos),
                      [p \in DOMAIN subtodos_map \ {id} |-> subtodos_map[p]])
             ELSE <<group>> \o CreateTodoGroups(Tail(main_todos), subtodos_map)

organize_todos_hierarchically(ts) ==
    LET main_todos == SortMainTodos(SeparateMainTodos(ts))
        buckets == SeparateSubtodos(ts)
        subtodos_map == [p \in DOMAIN buckets |-> SortSubtodos(buckets[p])]
    IN  CreateTodoGroups(main_todos, subtodos_map)

----------------------------------------------------------------------------
(* organize_todos_flat_hierarchically *)

\* FlatTodo::new_main that marks every main todo as one without subtodos
new_main_childless(todo, has_subtodos) ==
    [todo |-> todo, depth |-> 0, is_main_todo |-> TRUE, has_subtodos |-> FALSE]

\* FlatTodo::new_main
new_main(todo, has_subtodos) ==
    [todo |-> todo, depth |-> 0, is_main_todo |-> TRUE,
     has_subtodos |-> has_subtodos]

\* FlatTodo::new_sub
new_sub(todo, depth) ==
    [todo |-> todo, depth |-> depth, is_main_todo |-> FALSE,
     has_subtodos |-> FALSE]

\* flat_todos.push(FlatTodo::new_sub(subtodo, 1)) for every subtodo of the
\* removed bucket
RECURSIVE PushSubtodos(_, _)
PushSubtodos(flat_todos, subtodos) ==
    IF subtodos = <<>> THEN flat_todos
    ELSE PushSubtodos(Append(flat_todos, new_sub(Head(subtodos), 1)),
                      Tail(subtodos))

\* the loop that creates the flat list; a bucket is removed from
\* subtodos_map when its subtodos are pushed
RECURSIVE CreateFlatTodos(_, _)
CreateFlatTodos(main_todos, subtodos_map) ==
    IF main_todos = <<>> THEN <<>>
    ELSE LET main_todo == Head(main_todos)
             has_subtodos == main_todo.id \in DOMAIN subtodos_map
             pushed == <<new_main(main_todo, has_subtodos)>>
         IN  IF main_todo.id \in DOMAIN subtodos_map
             THEN PushSubtodos(pushed, subtodos_map[main_todo.id]) \o
                  CreateFlatTodos(Tail(main_todos),
                      [p \in DOMAIN subtodos_map \ {main_todo.id} |->
                          subtodos_map[p]])
             ELSE pushed \o CreateFlatTodos(Tail(main_todos), subtodos_map)

organize_todos_flat_hierarchically(ts) ==
    LET main_todos == SortMainTodos(SeparateMainTodos(ts))
        buckets == SeparateSubtodos(ts)
        subtodos_map == [p \in DOMAIN buckets |-> SortSubtodos(buckets[p])]
    IN  CreateFlatTodos(main_todos, subtodos_map)

----------------------------------------------------------------------------
(* SpecOrganize: the organizer applied to every input within the bounds.   *)
(* The records carry the fields the organizer reads; ids are unique, as    *)
(* the primary key of the rows they are loaded from.                       *)

OrgIds == 1..MaxLen
OrgKeys == {<<High, ToDo>>, <<Medium, ToDo>>, <<Medium, InProgress>>}

OrgTodo(id, parent_id, key) ==
    [id |-> id, parent_id |-> parent_id, priority |-> key[1], status |-> key[2]]

\* the id columns of an input of n rows: n different ids, ascending (the
\* order rows are stored in) or descending.  The organizer reads an id only
\* to match it against a parent_id, so every other order is one of these
\* with the ids renamed.
OrgIdColumns(n) ==
    LET RECURSIVE Ascending(_)
        Ascending(S) ==
            IF S = {} THEN <<>>
            ELSE LET m == CHOOSE x \in S : \A y \in S : x <= y
                 IN  <<m>> \o Ascending(S \ {m})
        asc == {Ascending(S) : S \in {T \in SUBSET OrgIds : Cardinality(T) = n}}
    IN  asc \cup {[i \in 1..n |-> a[n + 1 - i]] : a \in asc}

\* the parent_id column: empty, an id that may be in the input, or an id
\* that no row of the input has
OrgParents == {None} \cup OrgIds \cup {MaxLen + 1}

InitOrganize ==
    /\ todos = <<>>
    /\ projects = <<>>
    /\ clock = 0
    /\ connected = FALSE
    /\ cmd = NoCommand
    /\ result = "none"
    /\ listed = {}
    /\ \E n \in 0..MaxLen :
        \E ids \in OrgIdColumns(n), parents \in [1..n -> OrgParents],
           keys \in [1..n -> OrgKeys] :
            orgIn = [i \in 1..n |-> OrgTodo(ids[i], parents[i], keys[i])]
    /\ orgOut = <<>>
    /\ orgFlat = <<>>
    /\ orgPc = "input"
    /\ codecIn = None
    /\ codecOut = None
    /\ codecPc = "idle"
    /\ cfgIn = None
    /\ cfgDir = <<>>
    /\ cfgOut = None
    /\ cfgPc = "idle"
    /\ HexIdle
    /\ TxIdle

Organize ==
    /\ orgPc = "input"
    /\ orgOut' = organize_todos_hierarchically(orgIn)
    /\ orgPc' = "done"
    /\ UNCHANGED <<orgIn, orgFlat, storeVars, codecVars, cfgVars, hexVars, txVars>>

OrganizeFlat ==
    /\ orgPc = "input"
    /\ orgFlat' = organize_todos_flat_hierarchically(orgIn)
    /\ orgPc' = "flat"
    /\ UNCHANGED <<orgIn, orgOut, storeVars, codecVars, cfgVars, hexVars, txVars>>

NextOrganize ==
    \/ Organize
    \/ OrganizeFlat

SpecOrganize == InitOrganize /\ [][NextOrganize]_vars

----------------------------------------------------------------------------
(* view project *)

\* todos.filter(project_id.eq(view_project_id)).load: the rows of the
\* project, in the order of their ids
RECURSIVE RowsById(_, _)
RowsById(store, ids) ==
    IF ids = {} THEN <<>>
    ELSE LET first == CHOOSE m \in ids : \A k \in ids : m <= k
         IN  <<store[first]>> \o RowsById(store, ids \ {first})

LoadProjectTodos(store, project_id) ==
    RowsById(store, {k \in DOMAIN store : store[k].project_id = project_id})

\* display_todo_groups: every main todo and every subtodo of every group
DisplayedTodos(todo_groups) ==
    {todo_groups[g].main_todo : g \in DOMAIN todo_groups} \cup
    UNION {{todo_groups[g].subtodos[i] : i \in DOMAIN todo_groups[g].subtodos} :
            g \in DOMAIN todo_groups}

handle_view_project_command(c) ==
    /\ cmd' = c
    /\ connected' = TRUE
    /\ IF c.id \in DOMAIN projects
       THEN /\ listed' = DisplayedTodos(
                    organize_todos_hierarchically(LoadProjectTodos(todos, c.id)))
            /\ result' = "Ok"
       ELSE /\ listed' = {}
            /\ result' = "DatabaseError"    \* .first() finds no row
    /\ UNCHANGED <<todos, projects, clock>>

ViewProjectCmd(ids) ==
    \E id \in ids :
        handle_view_project_command(
            Command("view_project", id, None, None, None, None, None,
                    FALSE, FALSE))

\* SpecView: todos and subtodos of both priorities, closed and viewed by
\* project
NewPriorityTodoStep ==
    NewTodoCmd(DOMAIN projects, FirstParentOpts, PriorityOpts, Absent)
        /\ UNCHANGED idleVars
ViewProjectStep == ViewProjectCmd(AllProjectIds) /\ UNCHANGED idleVars

NextView ==
    \/ NewProjectStep
    \/ NewPriorityTodoStep
    \/ CloseTodoStep
    \/ ViewProjectStep

SpecView == Init /\ [][NextView]_vars

----------------------------------------------------------------------------
(* The persisted encoding of TodoStatus and TodoPriority *)

\* the variants, by name
StatusVariants == {"ToDo", "InProgress", "Done", "Blocked", "OnHold", "Cancelled"}
PriorityVariants == {"Low", "Medium", "High", "Urgent"}

\* what from_sql returns for an integer that no arm matches
Unrecognized == "Err(Unrecognized variant)"


\* to_sql with the discriminants of Done and Blocked exchanged
StatusToSqlSwapped(v) ==
    CASE v = "ToDo" -> ToDo
      [] v = "InProgress" -> InProgress
      [] v = "Done" -> Blocked
      [] v = "Blocked" -> Done
      [] v = "OnHold" -> OnHold
      [] v = "Cancelled" -> Cancelled

\* ToSql for TodoStatus: *self as i32, the discriminant of the variant
StatusToSql(v) ==
    CASE v = "ToDo" -> ToDo
      [] v = "InProgress" -> InProgress
      [] v = "Done" -> Done
      [] v = "Blocked" -> Blocked
      [] v = "OnHold" -> OnHold
      [] v = "Cancelled" -> Cancelled


\* from_sql whose last arm falls back to the default variant
StatusFromSqlDefaulting(value) ==
    CASE value = 0 -> "ToDo"
      [] value = 1 -> "InProgress"
      [] value = 2 -> "Done"
      [] value = 3 -> "Blocked"
      [] value = 4 -> "OnHold"
      [] value = 5 -> "Cancelled"
      [] OTHER -> "ToDo"

\* FromSql for TodoStatus: the match on the stored i32
StatusFromSql(value) ==
    CASE value = 0 -> "ToDo"
      [] value = 1 -> "InProgress"
      [] value = 2 -> "Done"
      [] value = 3 -> "Blocked"
      [] value = 4 -> "OnHold"
      [] value = 5 -> "Cancelled"
      [] OTHER -> Unrecognized

\* ToSql for TodoPriority
PriorityToSql(v) ==
    CASE v = "Low" -> Low
      [] v = "Medium" -> Medium
      [] v = "High" -> High
      [] v = "Urgent" -> Urgent

\* FromSql for TodoPriority
PriorityFromSql(value) ==
    CASE value = 0 -> "Low"
      [] value = 1 -> "Medium"
      [] value = 2 -> "High"
      [] value = 3 -> "Urgent"
      [] OTHER -> Unrecognized

\* the stored integers handed to from_sql
RawValues == (0 - MaxRaw)..MaxRaw

CodecInput(type, value) == [type |-> type, value |-> value]

InitCodec ==
    /\ todos = <<>>
    /\ projects = <<>>
    /\ clock = 0
    /\ connected = FALSE
    /\ cmd = NoCommand
    /\ result = "none"
    /\ listed = {}
    /\ orgIn = <<>>
    /\ orgOut = <<>>
    /\ orgFlat = <<>>
    /\ orgPc = "idle"
    /\ \/ \E v \in StatusVariants : codecIn = CodecInput("TodoStatus", v)
       \/ \E v \in PriorityVariants : codecIn = CodecInput("TodoPriority", v)
       \/ \E value \in RawValues : codecIn = CodecInput("status", value)
       \/ \E value \in RawValues : codecIn = CodecInput("priority", value)
    /\ codecOut = None
    /\ codecPc = "input"
    /\ cfgIn = None
    /\ cfgDir = <<>>
    /\ cfgOut = None
    /\ cfgPc = "idle"
    /\ HexIdle
    /\ TxIdle

\* a variant is written to its column and read back
StoreAndLoad ==
    /\ codecPc = "input"
    /\ codecIn.type \in {"TodoStatus", "TodoPriority"}
    /\ codecOut' =
        IF codecIn.type = "TodoStatus"
        THEN [sql |-> StatusToSql(codecIn.value),
              loaded |-> StatusFromSql(StatusToSql(codecIn.value))]
        ELSE [sql |-> PriorityToSql(codecIn.value),
              loaded |-> PriorityFromSql(PriorityToSql(codecIn.value))]
    /\ codecPc' = "done"
    /\ UNCHANGED <<codecIn, storeVars, orgVars, cfgVars, hexVars, txVars>>

\* a stored integer is read from its column
Load ==
    /\ codecPc = "input"
    /\ codecIn.type \in {"status", "priority"}
    /\ codecOut' =
        IF codecIn.type = "status"
        THEN [loaded |-> StatusFromSql(codecIn.value)]
        ELSE [loaded |-> PriorityFromSql(codecIn.value)]
    /\ codecPc' = "done"
    /\ UNCHANGED <<codecIn, storeVars, orgVars, cfgVars, hexVars, txVars>>

NextCodec ==
    \/ StoreAndLoad
    \/ Load

SpecCodec == InitCodec /\ [][NextCodec]_vars

----------------------------------------------------------------------------
(* parse_required_project_id and the .tudu marker file (src/config.rs).    *)
(* A directory is the sequence of its components below the filesystem      *)
(* root; the root is <<>>.  An Option is the empty set or a singleton.     *)

Names == {"a", "b"}
Dirs == UNION {[1..n -> Names] : n \in 0..MaxDepth}

\* a line of a .tudu file: whether it starts with "PROJECT_ID=", and what
\* trim().parse::<i32>() makes of the rest
Line(prefixed, parsed) == [prefixed |-> prefixed, parsed |-> parsed]

TuduFiles ==
    {<<>>,
     <<Line(TRUE, {7})>>,
     <<Line(TRUE, {})>>,
     <<Line(FALSE, {9}), Line(TRUE, {}), Line(TRUE, {8}), Line(TRUE, {7})>>}

\* the --project_id option
ExplicitIds == {{}, {5}}

\* PathBuf::pop: the parent, and whether there was one
Pop(dir) == SubSeq(dir, 1, Len(dir) - 1)
HasParent(dir) == dir # <<>>

\* the loop over reader.lines(): the id of the first line that has the
\* prefix and parses
RECURSIVE ProjectIdOfLines(_)
ProjectIdOfLines(lines) ==
    IF lines = <<>> THEN {}
    ELSE IF Head(lines).prefixed /\ Head(lines).parsed # {}
         THEN Head(lines).parsed
         ELSE ProjectIdOfLines(Tail(lines))

Ok(id) == [tag |-> "Ok", id |-> id]
Err(error) == [tag |-> error, id |-> None]

ConfigInput(project_id, start_dir, files) ==
    [project_id |-> project_id, start_dir |-> start_dir, files |-> files]

\* at most two directories of the tree hold a .tudu file
InitConfig ==
    /\ todos = <<>>
    /\ projects = <<>>
    /\ clock = 0
    /\ connected = FALSE
    /\ cmd = NoCommand
    /\ result = "none"
    /\ listed = {}
    /\ orgIn = <<>>
    /\ orgOut = <<>>
    /\ orgFlat = <<>>
    /\ orgPc = "idle"
    /\ codecIn = None
    /\ codecOut = None
    /\ codecPc = "idle"
    /\ \E project_id \in ExplicitIds, start_dir \in Dirs,
          marked \in {m \in SUBSET Dirs : Cardinality(m) <= 2} :
            \E files \in [marked -> TuduFiles] :
                cfgIn = ConfigInput(project_id, start_dir, files)
    /\ cfgDir = <<>>
    /\ cfgOut = [found |-> {}, searched |-> FALSE, returned |-> Err("none")]
    /\ cfgPc = "parse"
    /\ HexIdle
    /\ TxIdle


\* the match on get_one(ProjectId) that asks the marker file first
ParseOutcomeConfigFirst(project_id) == "config"

\* parse_required_project_id: the match on get_one(ProjectId)
ParseOutcome(project_id) == IF project_id # {} THEN "explicit" ELSE "config"

\* parse_required_project_id up to the call of get_project_id_from_config,
\* which starts the search at env::current_dir()
ParseRequiredProjectId ==
    /\ cfgPc = "parse"
    /\ IF ParseOutcome(cfgIn.project_id) = "explicit"
       THEN /\ cfgOut' = [cfgOut EXCEPT
                            !.returned = Ok(CHOOSE id \in cfgIn.project_id : TRUE)]
            /\ cfgPc' = "done"
            /\ UNCHANGED cfgDir
       ELSE /\ cfgDir' = cfgIn.start_dir
            /\ cfgOut' = [cfgOut EXCEPT !.searched = TRUE]
            /\ cfgPc' = "find"
    /\ UNCHANGED <<cfgIn, storeVars, orgVars, codecVars, hexVars, txVars>>


\* an iteration that gives up at the first directory without a .tudu file
FindOutcomeNoAscent(dir, files) ==
    IF dir \in DOMAIN files THEN "found" ELSE "none"

\* one iteration of the loop of find_tudu_file_from
FindOutcome(dir, files) ==
    IF dir \in DOMAIN files THEN "found"
    ELSE IF HasParent(dir) THEN "pop"
    ELSE "none"

\* find_tudu_file_from: one iteration of its loop; on None both callers
\* return at once
FindTuduFileFrom ==
    /\ cfgPc = "find"
    /\ LET outcome == FindOutcome(cfgDir, cfgIn.files)
       IN  CASE outcome = "found" ->
                    /\ cfgOut' = [cfgOut EXCEPT !.found = {cfgDir}]
                    /\ cfgPc' = "read"
                    /\ UNCHANGED cfgDir
             [] outcome = "pop" ->
                    /\ cfgDir' = Pop(cfgDir)
                    /\ UNCHANGED <<cfgOut, cfgPc>>
             [] outcome = "none" ->
                    /\ cfgOut' = [cfgOut EXCEPT
                                    !.returned = Err("RequiredArgumentError")]
                    /\ cfgPc' = "done"
                    /\ UNCHANGED cfgDir
    /\ UNCHANGED <<cfgIn, storeVars, orgVars, codecVars, hexVars, txVars>>

\* get_project_id_from_config after the search, and the match of
\* parse_required_project_id on what it returns
ReadProjectId ==
    /\ cfgPc = "read"
    /\ LET file == cfgIn.files[CHOOSE dir \in cfgOut.found : TRUE]
           config_id == ProjectIdOfLines(file)
       IN  cfgOut' = [cfgOut EXCEPT
                        !.returned =
                            IF config_id # {}
                            THEN Ok(CHOOSE id \in config_id : TRUE)
                            ELSE Err("RequiredArgumentError")]
    /\ cfgPc' = "done"
    /\ UNCHANGED <<cfgIn, cfgDir, storeVars, orgVars, codecVars, hexVars, txVars>>

NextConfig ==
    \/ ParseRequiredProjectId
    \/ FindTuduFileFrom
    \/ ReadProjectId

SpecConfig == InitConfig /\ [][NextConfig]_vars

\* the function runs on one thread, which takes its next step whenever it
\* has one
SpecConfigFair == SpecConfig /\ WF_vars(NextConfig)


----------------------------------------------------------------------------
(* HexColor (src/display/hex.rs).  A string is the sequence of its chars,  *)
(* a colour the record of its three u8 components, an Option the empty set *)
(* or a singleton.  "U+00E9" is a char of two bytes in UTF-8.              *)

LowerDigits ==
    <<"0", "1", "2", "3", "4", "5", "6", "7", "8", "9",
      "a", "b", "c", "d", "e", "f">>
UpperDigits ==
    <<"0", "1", "2", "3", "4", "5", "6", "7", "8", "9",
      "A", "B", "C", "D", "E", "F">>

\* the chars the strings handed to from_hex are made of
HexAlphabet == {"#", "0", "a", "F", "g", "U+00E9"}
LongAlphabet == {"0", "F", "g"}

\* the components of the colours handed to to_hex
Components == {0, 10, 58, 175, 255}

\* char::len_utf8
LenUtf8(ch) == IF ch = "U+00E9" THEN 2 ELSE 1

\* str::len, the length in bytes
RECURSIVE StrLen(_)
StrLen(s) == IF s = <<>> THEN 0 ELSE LenUtf8(Head(s)) + StrLen(Tail(s))

\* char::to_digit(16)
ToDigit(ch) ==
    IF \E i \in 1..16 : LowerDigits[i] = ch
    THEN {(CHOOSE i \in 1..16 : LowerDigits[i] = ch) - 1}
    ELSE IF \E i \in 1..16 : UpperDigits[i] = ch
         THEN {(CHOOSE i \in 1..16 : UpperDigits[i] = ch) - 1}
         ELSE {}

\* char::is_ascii_hexdigit
IsAsciiHexdigit(ch) == ToDigit(ch) # {}

\* u8::from_str_radix(s, 16) of a string of two chars
FromStrRadix(s) ==
    IF \A i \in 1..Len(s) : IsAsciiHexdigit(s[i])
    THEN {16 * (CHOOSE d \in ToDigit(s[1]) : TRUE)
             + (CHOOSE d \in ToDigit(s[2]) : TRUE)}
    ELSE {}

\* str::trim_start_matches('#'): every leading '#' is removed
RECURSIVE TrimStartMatches(_)
TrimStartMatches(s) ==
    IF s # <<>> /\ Head(s) = "#" THEN TrimStartMatches(Tail(s)) ELSE s

HexColor(r, g, b) == [r |-> r, g |-> g, b |-> b]

HexOk(color) == [tag |-> "Ok", color |-> {color}]
HexErr(error) == [tag |-> error, color |-> {}]

\* the three from_str_radix calls with map_err(ParseError)? and Self::new
ParseComponents(rr, gg, bb) ==
    LET r == FromStrRadix(rr)
        g == FromStrRadix(gg)
        b == FromStrRadix(bb)
    IN  IF r = {} \/ g = {} \/ b = {}
        THEN HexErr("ParseError")
        ELSE HexOk(HexColor(CHOOSE n \in r : TRUE, CHOOSE n \in g : TRUE,
                            CHOOSE n \in b : TRUE))

\* a short-form digit read as the low digit of its component
ExpandPadded(ch) == <<"0", ch>>

\* format!("{}{}", chars[i], chars[i])
Expand(ch) == <<ch, ch>>

\* HexColor::from_hex
from_hex(input) ==
    LET hex == TrimStartMatches(input)
    IN  CASE StrLen(hex) = 3 ->
                IF ~ \A i \in 1..Len(hex) : IsAsciiHexdigit(hex[i])
                THEN HexErr("InvalidCharacter")
                ELSE ParseComponents(Expand(hex[1]), Expand(hex[2]),
                                     Expand(hex[3]))
          [] StrLen(hex) = 6 ->
                IF ~ \A i \in 1..Len(hex) : IsAsciiHexdigit(hex[i])
                THEN HexErr("InvalidCharacter")
                ELSE ParseComponents(SubSeq(hex, 1, 2), SubSeq(hex, 3, 4),
                                     SubSeq(hex, 5, 6))
          [] OTHER -> HexErr("InvalidLength")

\* {:02x} of a u8
LowerHex02(n) == <<LowerDigits[(n \div 16) + 1], LowerDigits[(n % 16) + 1]>>

\* HexColor::to_hex
to_hex(color) ==
    <<"#">> \o LowerHex02(color.r) \o LowerHex02(color.g) \o LowerHex02(color.b)

\* the strings handed to from_hex: every string of at most MaxHexLen chars,
\* and the longer ones behind zero, one or two '#'
HexStrings ==
    UNION {[1..n -> HexAlphabet] : n \in 0..MaxHexLen}
    \cup {prefix \o body :
            prefix \in {<<>>, <<"#">>, <<"#", "#">>},
            body \in UNION {[1..n -> LongAlphabet] : n \in 5..7}}

HexInput(type, value) == [type |-> type, value |-> value]

InitHex ==
    /\ todos = <<>>
    /\ projects = <<>>
    /\ clock = 0
    /\ connected = FALSE
    /\ cmd = NoCommand
    /\ result = "none"
    /\ listed = {}
    /\ orgIn = <<>>
    /\ orgOut = <<>>
    /\ orgFlat = <<>>
    /\ orgPc = "idle"
    /\ codecIn = None
    /\ codecOut = None
    /\ codecPc = "idle"
    /\ cfgIn = None
    /\ cfgDir = <<>>
    /\ cfgOut = None
    /\ cfgPc = "idle"
    /\ TxIdle
    /\ \/ \E r \in Components, g \in Components, b \in Components :
            hexIn = HexInput("HexColor", HexColor(r, g, b))
       \/ \E s \in HexStrings : hexIn = HexInput("str", s)
    /\ hexOut = None
    /\ hexPc = "input"

\* a colour is formatted and the string is parsed back
ToHexAndBack ==
    /\ hexPc = "input"
    /\ hexIn.type = "HexColor"
    /\ hexOut' = [hex |-> to_hex(hexIn.value),
                  parsed |-> from_hex(to_hex(hexIn.value))]
    /\ hexPc' = "done"
    /\ UNCHANGED <<hexIn, storeVars, orgVars, codecVars, cfgVars, txVars>>

\* a string is parsed
FromHex ==
    /\ hexPc = "input"
    /\ hexIn.type = "str"
    /\ hexOut' = [hex |-> hexIn.value, parsed |-> from_hex(hexIn.value)]
    /\ hexPc' = "done"
    /\ UNCHANGED <<hexIn, storeVars, orgVars, codecVars, cfgVars, txVars>>

NextHex ==
    \/ ToHexAndBack
    \/ FromHex

SpecHex == InitHex /\ [][NextHex]_vars

----------------------------------------------------------------------------
(* Two invocations at once (src/todo/command.rs).  Each invocation is a    *)
(* process with a connection of its own to the one store file, and the     *)
(* statements of its transaction are its steps.  The store is SQLite: a    *)
(* transaction keeps its locks (journal_mode=DELETE) or its snapshot       *)
(* (journal_mode=WAL) until COMMIT or ROLLBACK, and a lock that is not     *)
(* granted is SQLITE_BUSY at once, since database_connection() sets no     *)
(* busy timeout.  A write is private to its connection until COMMIT.       *)

Invocations == {1, 2}

\* database_connection() sets no pragma: the journal mode is the one the
\* store file was left in
JournalModes == {"delete", "wal"}

Locked == "DatabaseError: database is locked"

\* the command lines of the two invocations
TxCommands ==
    {Command("new_todo", None, 1, parent_id, None, None, None, FALSE, FALSE) :
        parent_id \in ParentOpts}
    \cup {Command("update_todo", id, None, parent_id, None, None, None,
                  FALSE, FALSE) : id \in TodoIds, parent_id \in TodoIds}

\* the stores the invocations start on: the todos that new todo commands
\* without and with the parent 1 have left
RECURSIVE SeedStore(_)
SeedStore(parents) ==
    IF parents = <<>> THEN <<>>
    ELSE InsertTodo(SeedStore(SubSeq(parents, 1, Len(parents) - 1)),
                    NewTodo(Command("new_todo", None, 1,
                                    parents[Len(parents)], None, None, None,
                                    FALSE, FALSE)))

SeedParents == {<<None>>, <<None, None>>, <<None, 1>>}

TxLocal(lock, seen, pending, res) ==
    [lock |-> lock, seen |-> seen, pending |-> pending, result |-> res]

TxInput(journal, commands) == [journal |-> journal, cmd |-> commands]

InitTx ==
    /\ \E parents \in SeedParents : todos = SeedStore(parents)
    /\ projects = InsertProject(<<>>, 1)
    /\ clock = 0
    /\ connected = FALSE
    /\ cmd = NoCommand
    /\ result = "none"
    /\ listed = {}
    /\ orgIn = <<>>
    /\ orgOut = <<>>
    /\ orgFlat = <<>>
    /\ orgPc = "idle"
    /\ codecIn = None
    /\ codecOut = None
    /\ codecPc = "idle"
    /\ cfgIn = None
    /\ cfgDir = <<>>
    /\ cfgOut = None
    /\ cfgPc = "idle"
    /\ HexIdle
    /\ \E journal \in JournalModes, commands \in [Invocations -> TxCommands] :
            /\ \A p \in Invocations :
                    commands[p].op = "update_todo"
                        => commands[p].parent_id \in DOMAIN todos
            /\ txIn = TxInput(journal, commands)
    /\ txPc = [p \in Invocations |-> "start"]
    /\ txOut = [p \in Invocations |-> TxLocal("none", <<>>, <<>>, "none")]

\* whether the statement of p is granted the lock that writing takes: one
\* connection writes at a time
CanWrite(locks, p) ==
    \A q \in Invocations \ {p} : locks[q].lock # "reserved"

\* whether the rows p has read are still the rows of the store: under WAL a
\* transaction that read before another one committed may not write
SnapshotCurrent(journal, local, store) ==
    (journal = "wal" /\ local.lock = "shared") => local.seen = store

\* a COMMIT that is granted whatever the other connections hold
CanCommitUnlocked(journal, locks, p) == TRUE

\* whether COMMIT of p is granted: under a rollback journal no other
\* connection may hold a lock, under WAL the writer commits
CanCommit(journal, locks, p) ==
    \/ journal = "wal"
    \/ \A q \in Invocations \ {p} : locks[q].lock = "none"

\* handle_new_todo_command: the SELECT of the parent's parent_id, the first
\* statement of the transaction
TxCheckParent(p) ==
    /\ txPc[p] = "start"
    /\ txIn.cmd[p].op = "new_todo"
    /\ LET new_todo == NewTodo(txIn.cmd[p])
           checked == NewTodoOutcome(todos, new_todo)
       IN  IF new_todo.parent_id = None
           THEN /\ txPc' = [txPc EXCEPT ![p] = "checked"]
                /\ UNCHANGED txOut
           ELSE IF checked = "Ok"
                THEN /\ txPc' = [txPc EXCEPT ![p] = "checked"]
                     /\ txOut' = [txOut EXCEPT
                                    ![p] = TxLocal("shared", todos, <<>>, "none")]
                ELSE /\ txPc' = [txPc EXCEPT ![p] = "done"]
                     /\ txOut' = [txOut EXCEPT
                                    ![p] = TxLocal("none", todos, <<>>, checked)]
    /\ UNCHANGED <<txIn, storeVars, orgVars, codecVars, cfgVars, hexVars>>

\* handle_new_todo_command: the INSERT
TxInsert(p) ==
    /\ txPc[p] = "checked"
    /\ \E enforced \in ForeignKeys :
        LET new_todo == NewTodo(txIn.cmd[p])
            outcome ==
                IF CanWrite(txOut, p)
                   /\ SnapshotCurrent(txIn.journal, txOut[p], todos)
                THEN ProjectReference(projects, new_todo.project_id, enforced)
                ELSE Locked
        IN  IF outcome = "Ok"
            THEN /\ txPc' = [txPc EXCEPT ![p] = "written"]
                 /\ txOut' = [txOut EXCEPT
                                ![p] = TxLocal("reserved",
                                               IF @.lock = "shared"
                                               THEN @.seen ELSE todos,
                                               NewTodoRows(todos, new_todo, outcome),
                                               "none")]
            ELSE /\ txPc' = [txPc EXCEPT ![p] = "done"]
                 /\ txOut' = [txOut EXCEPT
                                ![p] = TxLocal("none", @.seen, <<>>, outcome)]
    /\ UNCHANGED <<txIn, storeVars, orgVars, codecVars, cfgVars, hexVars>>

\* handle_update_todo_command: the UPDATE, the one statement of its
\* transaction
TxUpdate(p) ==
    /\ txPc[p] = "start"
    /\ txIn.cmd[p].op = "update_todo"
    /\ \E enforced \in ForeignKeys :
        LET update_todo == UpdateTodo(txIn.cmd[p], clock, clock)
            outcome ==
                IF CanWrite(txOut, p)
                THEN UpdateTodoOutcome(todos, projects, update_todo, enforced)
                ELSE Locked
        IN  IF outcome = "Ok"
            THEN /\ txPc' = [txPc EXCEPT ![p] = "written"]
                 /\ txOut' = [txOut EXCEPT
                                ![p] = TxLocal("reserved", todos,
                                               [todos EXCEPT
                                                  ![update_todo.id] =
                                                      ApplyUpdateTodo(@, update_todo)],
                                               "none")]
            ELSE /\ txPc' = [txPc EXCEPT ![p] = "done"]
                 /\ txOut' = [txOut EXCEPT
                                ![p] = TxLocal("none", todos, <<>>, outcome)]
    /\ UNCHANGED <<txIn, storeVars, orgVars, codecVars, cfgVars, hexVars>>

\* connection.transaction: the COMMIT after the closure returned Ok; a
\* COMMIT that fails is rolled back
TxCommit(p) ==
    /\ txPc[p] = "written"
    /\ txPc' = [txPc EXCEPT ![p] = "done"]
    /\ IF CanCommit(txIn.journal, txOut, p)
       THEN /\ todos' = txOut[p].pending
            /\ txOut' = [txOut EXCEPT
                            ![p] = TxLocal("none", @.seen, @.pending, "Ok")]
       ELSE /\ txOut' = [txOut EXCEPT
                            ![p] = TxLocal("none", @.seen, <<>>, Locked)]
            /\ UNCHANGED todos
    /\ UNCHANGED <<txIn, projects, clock, connected, cmd, result, listed,
                   orgVars, codecVars, cfgVars, hexVars>>

NextTx ==
    \/ \E p \in Invocations : TxCheckParent(p)
    \/ \E p \in Invocations : TxInsert(p)
    \/ \E p \in Invocations : TxUpdate(p)
    \/ \E p \in Invocations : TxCommit(p)

SpecTx == InitTx /\ [][NextTx]_vars

----------------------------------------------------------------------------
(* Properties of the store *)

\* a stored todo has a parent whose own parent_id is empty
DepthOne(store, k) ==
    store[k].parent_id # None =>
        /\ store[k].parent_id \in DOMAIN store
        /\ store[store[k].parent_id].parent_id = None

\* C1: in every reachable store every todo whose parent_id is set references
\* a todo whose own parent_id is empty (no chain of depth 2, no todo that is
\* its own parent).
C1_DepthInvariant == \A k \in DOMAIN todos : DepthOne(todos, k)

\* C2: a new todo whose parent_id points to a todo that itself has a parent
\* ends with UnSupportedError and leaves the stored todos unchanged.
C2_SubSubTodoRejected ==
    [][(/\ cmd'.op = "new_todo"
        /\ cmd'.parent_id \in DOMAIN todos
        /\ todos[cmd'.parent_id].parent_id # None)
       => (result' = "UnSupportedError" /\ todos' = todos)]_vars

\* a new todo under a todo that has a parent was just rejected
C2_Witness ==
    /\ cmd.op = "new_todo"
    /\ cmd.parent_id \in DOMAIN todos
    /\ todos[cmd.parent_id].parent_id # None
    /\ todos[cmd.parent_id].parent_id # cmd.parent_id
    /\ result = "UnSupportedError"

\* the stored rows
StoredTodos == {todos[k] : k \in DOMAIN todos}

\* C10: list todo with due_date = D and the greater_than flag returns exactly
\* the stored todos with due_date > D that satisfy every other constraint the
\* user supplied (priority, status), combined with AND.
C10_GreaterThanList ==
    (cmd.op = "list_todo" /\ cmd.due_date # None /\ cmd.greater_than) =>
        listed = {t \in StoredTodos :
                    /\ t.due_date # None
                    /\ t.due_date > cmd.due_date
                    /\ (cmd.priority # None => t.priority = cmd.priority)
                    /\ (cmd.status # None => t.status = cmd.status)}

\* C11: list todo without any filter option returns every stored todo.
C11_ListAll ==
    (/\ cmd.op = "list_todo"
     /\ cmd.due_date = None /\ cmd.priority = None /\ cmd.status = None)
        => listed = StoredTodos

\* the priority and status constraints list todo puts into the query: the
\* option the user gave, or the default the command line declares for it
MeetsPriorityAndStatus(t) ==
    /\ t.priority = (IF cmd.priority = None THEN Low ELSE cmd.priority)
    /\ t.status = (IF cmd.status = None THEN ToDo ELSE cmd.status)

\* the comparison the flags select
DueDateMode ==
    IF cmd.greater_than THEN "greater_than"
    ELSE IF cmd.less_than THEN "less_than"
    ELSE "equal"

MeetsDueDate(t) ==
    /\ t.due_date # None
    /\ \/ DueDateMode = "greater_than" /\ t.due_date > cmd.due_date
       \/ DueDateMode = "less_than" /\ t.due_date < cmd.due_date
       \/ DueDateMode = "equal" /\ t.due_date = cmd.due_date

\* C12: with a due_date, list todo compares by greater-than if greater_than
\* is set (also when less_than is set too), else by less-than if less_than
\* is set, else by equality, and applies that one due_date predicate.
C12_DueDateMode ==
    (cmd.op = "list_todo" /\ cmd.due_date # None) =>
        listed = {t \in StoredTodos : MeetsPriorityAndStatus(t) /\ MeetsDueDate(t)}

\* both flags given: a todo due later is listed, a todo due earlier is not
C12_Witness ==
    /\ cmd.op = "list_todo"
    /\ cmd.due_date # None /\ cmd.greater_than /\ cmd.less_than
    /\ \E t \in listed : t.due_date > cmd.due_date
    /\ \E t \in StoredTodos \ listed :
        MeetsPriorityAndStatus(t) /\ t.due_date # None /\ t.due_date < cmd.due_date

\* the row the last new todo inserted
NewestTodo == todos[CHOOSE m \in DOMAIN todos : \A k \in DOMAIN todos : k <= m]

\* C13: a todo created without a priority option is stored with priority
\* Medium.
C13_DefaultPriorityMedium ==
    (cmd.op = "new_todo" /\ result = "Ok" /\ cmd.priority = None) =>
        NewestTodo.priority = Medium

\* C14: right after every close todo the closed todo has
\* completed_at = updated_at (and status Done).
C14_CloseSameTime ==
    (cmd.op = "close_todo" /\ result = "Ok") =>
        /\ todos[cmd.id].status = Done
        /\ todos[cmd.id].completed_at = todos[cmd.id].updated_at

\* C15: an update todo that supplies status Done or Cancelled sets
\* completed_at to a time read during the update; an update that supplies
\* another status or none leaves completed_at as it was.
C15_CompletedAtFrame ==
    [][(cmd'.op = "update_todo" /\ result' = "Ok") =>
        IF cmd'.status \in {Done, Cancelled}
        THEN /\ todos'[cmd'.id].completed_at # None
             /\ clock <= todos'[cmd'.id].completed_at
             /\ todos'[cmd'.id].completed_at <= clock'
        ELSE todos'[cmd'.id].completed_at = todos[cmd'.id].completed_at]_vars

\* a completed todo updated later with another status keeps the earlier
\* completed_at
C15_Witness ==
    /\ cmd.op = "update_todo" /\ result = "Ok"
    /\ cmd.status \notin {Done, Cancelled}
    /\ todos[cmd.id].completed_at # None
    /\ todos[cmd.id].completed_at < todos[cmd.id].updated_at

\* C16: every todo with a parent_id has the project_id of the todo its
\* parent_id references (looked at where both projects exist).
C16_NoCrossProjectParenting ==
    \A k \in DOMAIN todos :
        (/\ todos[k].parent_id \in DOMAIN todos
         /\ todos[k].project_id \in DOMAIN projects
         /\ todos[todos[k].parent_id].project_id \in DOMAIN projects)
            => todos[k].project_id = todos[todos[k].parent_id].project_id

\* C17: every stored todo's project_id is the id of a stored project.
C17_ProjectReferenceIntegrity ==
    \A k \in DOMAIN todos : todos[k].project_id \in DOMAIN projects

\* the command names an id that the store does not hold
AbsentReference(c) ==
    \/ c.op \in {"view_todo", "update_todo", "close_todo"} /\ c.id \notin DOMAIN todos
    \/ c.op \in {"update_project", "close_project"} /\ c.id \notin DOMAIN projects
    \/ c.op = "new_todo" /\ c.parent_id # None /\ c.parent_id \notin DOMAIN todos

\* C18: a command that references an id absent from the store ends with the
\* DatabaseError of the not-found message.
C18_NotFound ==
    [][AbsentReference(cmd') => result' = "DatabaseError"]_vars

\* C19: a command that ends with an error leaves both tables as they were.
C19_ErrorLeavesStore ==
    [][result' # "Ok" => (todos' = todos /\ projects' = projects)]_vars

\* a new todo under a subtodo is refused on a store that holds rows of both
\* tables
C19_Witness ==
    /\ cmd.op = "new_todo" /\ result = "UnSupportedError"
    /\ todos # <<>> /\ projects # <<>>

\* the ordinals the encoding is to keep
StableOrdinal ==
    [v \in StatusVariants \cup PriorityVariants |->
        CASE v \in {"ToDo", "Low"} -> 0
          [] v \in {"InProgress", "Medium"} -> 1
          [] v \in {"Done", "High"} -> 2
          [] v \in {"Blocked", "Urgent"} -> 3
          [] v = "OnHold" -> 4
          [] v = "Cancelled" -> 5]

\* C20: every variant is stored as its ordinal (ToDo=0 .. Cancelled=5,
\* Low=0 .. Urgent=3) and read back as the same variant.
C20_OrdinalRoundTrip ==
    (codecPc = "done" /\ codecIn.type \in {"TodoStatus", "TodoPriority"}) =>
        /\ codecOut.sql = StableOrdinal[codecIn.value]
        /\ codecOut.loaded = codecIn.value

C20_Witness ==
    /\ codecPc = "done"
    /\ codecIn = CodecInput("TodoStatus", "Cancelled")
    /\ codecOut = [sql |-> 5, loaded |-> "Cancelled"]

\* C21: a stored integer outside 0..5 read as a status, or outside 0..3
\* read as a priority, gives the "Unrecognized variant" error and no variant.
C21_OutOfRangeRejected ==
    (codecPc = "done" /\ codecIn.type \in {"status", "priority"}) =>
        /\ (codecIn.type = "status" /\ codecIn.value \notin 0..5)
                => codecOut.loaded = Unrecognized
        /\ (codecIn.type = "priority" /\ codecIn.value \notin 0..3)
                => codecOut.loaded = Unrecognized
        /\ codecOut.loaded = Unrecognized
                => codecOut.loaded \notin StatusVariants \cup PriorityVariants

\* the first integer past the status ordinals was read
C21_Witness ==
    /\ codecPc = "done"
    /\ codecIn.type = "status" /\ codecIn.value = 6
    /\ codecOut.loaded = Unrecognized

\* C22: an invocation with the prompt argument ends with InProgressError,
\* opens no store connection, reads no clock, loads nothing and leaves both
\* tables as they were, whatever subcommand came with it.
C22_PromptNeverDispatches ==
    [][cmd'.prompt # None =>
        /\ result' = "InProgressError"
        /\ connected' = FALSE
        /\ listed' = {}
        /\ todos' = todos /\ projects' = projects /\ clock' = clock]_vars

\* a prompt typed with new todo on a store in which the new todo would have
\* been inserted
C22_Witness ==
    /\ cmd.prompt # None /\ cmd.op = "new_todo"
    /\ result = "InProgressError"
    /\ projects # <<>>
    /\ NextTodoId(todos) <= MaxTodos
    /\ ~connected

\* the display policy of project-scoped viewing
MeetsThreshold(t, threshold) ==
    \/ t.status # Done /\ t.priority = threshold
    \/ t.priority > threshold

\* C23: view project shows exactly the todos of the project that satisfy
\* (status != Done AND priority == threshold) OR (priority > threshold),
\* for the threshold in force, whichever priority that is.
C23_ViewProjectThreshold ==
    (cmd.op = "view_project" /\ result = "Ok") =>
        \E threshold \in TodoPriority :
            listed = {t \in StoredTodos :
                        t.project_id = cmd.id /\ MeetsThreshold(t, threshold)}

\* the directories on the path from dir up to the filesystem root
Ancestors(dir) == {SubSeq(dir, 1, n) : n \in 0..Len(dir)}

\* the nearest of them that holds a .tudu file
NearestMarker(start_dir, marked) ==
    LET on_path == Ancestors(start_dir) \cap marked
    IN  IF on_path = {} THEN {}
        ELSE {CHOOSE d \in on_path : \A e \in on_path : Len(e) <= Len(d)}

\* the PROJECT_ID a .tudu file gives
MarkerProjectId(file) ==
    LET valid == {i \in DOMAIN file : file[i].prefixed /\ file[i].parsed # {}}
    IN  IF valid = {} THEN {}
        ELSE file[CHOOSE i \in valid : \A j \in valid : i <= j].parsed

\* the PROJECT_ID of the marker file the upward search finds
ConfigProjectId ==
    LET near == NearestMarker(cfgIn.start_dir, DOMAIN cfgIn.files)
    IN  IF near = {} THEN {}
        ELSE MarkerProjectId(cfgIn.files[CHOOSE d \in near : TRUE])

\* C24: parse_required_project_id returns the given project_id when there is
\* one, else the PROJECT_ID of the marker file found by the upward search,
\* and RequiredArgumentError exactly when there is neither.
C24_RequiredProjectId ==
    cfgPc = "done" =>
        /\ cfgIn.project_id # {} => cfgOut.returned.tag = "Ok" /\ {cfgOut.returned.id} = cfgIn.project_id
        /\ (cfgIn.project_id = {} /\ ConfigProjectId # {}) =>
                cfgOut.returned.tag = "Ok" /\ {cfgOut.returned.id} = ConfigProjectId
        /\ cfgOut.returned.tag = "RequiredArgumentError"
                <=> (cfgIn.project_id = {} /\ ConfigProjectId = {})

\* no option given, the marker file is in the parent of the current
\* directory, another one is in the root, and its first lines give no id
C24_Witness ==
    /\ cfgPc = "done"
    /\ cfgIn.project_id = {}
    /\ Len(cfgIn.start_dir) = 2
    /\ cfgOut.found = {Pop(cfgIn.start_dir)}
    /\ <<>> \in DOMAIN cfgIn.files
    /\ cfgOut.returned = Ok(8)

\* C25: find_tudu_file_from terminates, and what it returns is the .tudu
\* file of the nearest directory on the path from start up to the root that
\* holds one, None when none does.
C25_FindNearestTerminates ==
    /\ <>(cfgPc = "done")
    /\ []((cfgPc \in {"read", "done"} /\ cfgOut.searched) =>
            cfgOut.found = NearestMarker(cfgIn.start_dir, DOMAIN cfgIn.files))

\* a search from depth 2 that ended at the root, past a .tudu file that is
\* not on the path
C25_Witness ==
    /\ cfgPc = "done" /\ cfgOut.searched
    /\ Len(cfgIn.start_dir) = 2
    /\ cfgOut.found = {<<>>}
    /\ \E d \in DOMAIN cfgIn.files : d \notin Ancestors(cfgIn.start_dir)

\* a string without its leading '#', if it has one
StripOne(s) == IF s # <<>> /\ Head(s) = "#" THEN Tail(s) ELSE s

AllHexdigits(d) == \A i \in 1..Len(d) : IsAsciiHexdigit(d[i])

\* the u8 written with the two hex digits hi and lo
DigitPair(hi, lo) ==
    16 * (CHOOSE v \in ToDigit(hi) : TRUE) + (CHOOSE v \in ToDigit(lo) : TRUE)

\* what from_hex is to return for the digits d, whose length is counted in
\* bytes: as the long form if there are six of them, doubled if three
ExpectedOfDigits(d) ==
    IF StrLen(d) \notin {3, 6} THEN HexErr("InvalidLength")
    ELSE IF ~AllHexdigits(d) THEN HexErr("InvalidCharacter")
    ELSE IF Len(d) = 3
         THEN HexOk(HexColor(DigitPair(d[1], d[1]), DigitPair(d[2], d[2]),
                             DigitPair(d[3], d[3])))
         ELSE HexOk(HexColor(DigitPair(d[1], d[2]), DigitPair(d[3], d[4]),
                             DigitPair(d[5], d[6])))

C27_CheckAndInsertAtomic ==
    [][\A p \in Invocations :
          (/\ txIn.cmd[p].op = "new_todo"
           /\ txIn.cmd[p].parent_id # None
           /\ txPc[p] = "written"
           /\ txPc'[p] = "done"
           /\ txOut'[p].result = "Ok")
          => /\ todos = txOut[p].seen
             /\ todos' = NewTodoRows(txOut[p].seen, NewTodo(txIn.cmd[p]), "Ok")]_vars

\* a new todo under a parent has committed, and the update of that parent
\* by the other invocation, which ran in between, was refused
C27_Witness ==
    \E p \in Invocations, q \in Invocations :
        /\ txPc[p] = "done"
        /\ txPc[q] = "done"
        /\ txIn.cmd[p].op = "new_todo"
        /\ txIn.cmd[p].parent_id # None
        /\ txOut[p].result = "Ok"
        /\ txIn.cmd[q].op = "update_todo"
        /\ txIn.cmd[q].id = txIn.cmd[p].parent_id
        /\ txOut[q].result = Locked

\* the value an update leaves in a field: the supplied one, else the stored
Supplied(option, stored) == IF option = None THEN stored ELSE option

\* C28: an update todo leaves every other todo as it was, and in the updated
\* todo sets project_id, parent_id, status, priority and due_date to the
\* supplied value and leaves each of them unchanged when its option is not
\* supplied; completed_at changes only when the supplied status is Done or
\* Cancelled.
C28_UpdateFrame ==
    [][(cmd'.op = "update_todo" /\ result' = "Ok") =>
        /\ DOMAIN todos' = DOMAIN todos
        /\ \A k \in DOMAIN todos \ {cmd'.id} : todos'[k] = todos[k]
        /\ LET before == todos[cmd'.id]
               after == todos'[cmd'.id]
           IN  /\ after.project_id = Supplied(cmd'.project_id, before.project_id)
               /\ after.parent_id = Supplied(cmd'.parent_id, before.parent_id)
               /\ after.status = Supplied(cmd'.status, before.status)
               /\ after.priority = Supplied(cmd'.priority, before.priority)
               /\ after.due_date = Supplied(cmd'.due_date, before.due_date)
               /\ cmd'.status \notin {Done, Cancelled}
                    => after.completed_at = before.completed_at]_vars

\* C29: in every reachable store a todo has a completed_at only if its
\* status is Done or Cancelled.
C29_CompletedOnlyIfClosed ==
    \A k \in DOMAIN todos :
        todos[k].completed_at # None => todos[k].status \in {Done, Cancelled}

----------------------------------------------------------------------------
(* Properties of the organizer *)

OrgDone == orgPc = "done"

InputTodos == {orgIn[i] : i \in DOMAIN orgIn}

\* the position of a record in the input (ids are unique)
InputIndex(r) == CHOOSE i \in DOMAIN orgIn : orgIn[i] = r

\* where a record appears in the output
MainPlaces(r) == {g \in DOMAIN orgOut : orgOut[g].main_todo = r}
SubPlaces(r) ==
    {pl \in (DOMAIN orgOut) \X (1..MaxLen + 1) :
        /\ pl[2] \in DOMAIN orgOut[pl[1]].subtodos
        /\ orgOut[pl[1]].subtodos[pl[2]] = r}

\* the input has a record with an empty parent_id and this id
IsMainCandidate(id) ==
    \E i \in DOMAIN orgIn : orgIn[i].id = id /\ orgIn[i].parent_id = None

IsOrphan(r) == r.parent_id # None /\ ~IsMainCandidate(r.parent_id)

\* the order the spec gives: priority descending, then status ascending
Precedes(a, b) ==
    \/ a.priority > b.priority
    \/ a.priority = b.priority /\ a.status < b.status

SameKey(a, b) == a.priority = b.priority /\ a.status = b.status

\* C3: every input record is the main_todo of exactly one group, or a subtodo
\* of exactly one group, or dropped; none appears twice, none with an empty
\* parent_id is dropped, and the output holds input records only.
C3_Partition ==
    OrgDone =>
        /\ \A r \in InputTodos :
            /\ Cardinality(MainPlaces(r)) + Cardinality(SubPlaces(r)) <= 1
            /\ r.parent_id = None => Cardinality(MainPlaces(r)) = 1
        /\ \A g \in DOMAIN orgOut :
            /\ orgOut[g].main_todo \in InputTodos
            /\ \A k \in DOMAIN orgOut[g].subtodos :
                    orgOut[g].subtodos[k] \in InputTodos

\* an input with a main todo, a subtodo of it and a dropped record
C3_Witness ==
    /\ OrgDone
    /\ \E a, b, c \in InputTodos :
        /\ MainPlaces(a) # {}
        /\ SubPlaces(b) # {}
        /\ MainPlaces(c) = {} /\ SubPlaces(c) = {}

\* C4: a group whose main todo has the higher priority precedes; with equal
\* priorities the one with the lower status ordinal precedes.
C4_MainOrder ==
    OrgDone =>
        \A g, h \in DOMAIN orgOut :
            Precedes(orgOut[g].main_todo, orgOut[h].main_todo) => g < h

\* three groups that the sort had to reorder, by priority and by status
C4_Witness ==
    /\ OrgDone
    /\ Len(orgOut) = 3
    /\ orgOut[1].main_todo.priority > orgOut[2].main_todo.priority
    /\ orgOut[2].main_todo.priority = orgOut[3].main_todo.priority
    /\ orgOut[2].main_todo.status < orgOut[3].main_todo.status
    /\ InputIndex(orgOut[3].main_todo) < InputIndex(orgOut[2].main_todo)
    /\ InputIndex(orgOut[2].main_todo) < InputIndex(orgOut[1].main_todo)

\* C5: one group per input record with an empty parent_id, and the subtodos
\* of a group are exactly the input records whose parent_id is its main
\* todo's id (none: an empty list).
C5_Groups ==
    OrgDone =>
        /\ Len(orgOut) = Cardinality({r \in InputTodos : r.parent_id = None})
        /\ \A r \in InputTodos : r.parent_id = None => MainPlaces(r) # {}
        /\ \A g \in DOMAIN orgOut :
            LET subs == orgOut[g].subtodos
                children == {r \in InputTodos :
                                r.parent_id = orgOut[g].main_todo.id}
            IN  /\ {subs[k] : k \in DOMAIN subs} = children
                /\ Len(subs) = Cardinality(children)

\* a group with a subtodo behind a group with none, the subtodo first in the
\* input
C5_Witness ==
    /\ OrgDone
    /\ Len(orgOut) = 2
    /\ Len(orgOut[1].subtodos) = 0
    /\ Len(orgOut[2].subtodos) = 1
    /\ InputIndex(orgOut[2].subtodos[1]) = 1

\* C6: the subtodos of every group are ordered by priority descending, then
\* status ascending.
C6_SubOrder ==
    OrgDone =>
        \A g \in DOMAIN orgOut :
            \A k, l \in DOMAIN orgOut[g].subtodos :
                Precedes(orgOut[g].subtodos[k], orgOut[g].subtodos[l]) => k < l

\* a group whose two subtodos the sort had to swap
C6_Witness ==
    /\ OrgDone
    /\ \E g \in DOMAIN orgOut :
        /\ Len(orgOut[g].subtodos) = 2
        /\ Precedes(orgOut[g].subtodos[1], orgOut[g].subtodos[2])
        /\ InputIndex(orgOut[g].subtodos[2]) < InputIndex(orgOut[g].subtodos[1])

\* C7: a record whose parent_id is set but is not the id of a record with an
\* empty parent_id in the same input appears in no group, neither as a
\* subtodo nor as a main_todo.
C7_OrphansDropped ==
    OrgDone =>
        \A r \in InputTodos :
            IsOrphan(r) => MainPlaces(r) = {} /\ SubPlaces(r) = {}

\* one orphan whose parent is absent and one whose parent is itself a child,
\* next to a group that is shown
C7_Witness ==
    /\ OrgDone
    /\ Len(orgOut) > 0
    /\ \E r \in InputTodos :
        /\ IsOrphan(r)
        /\ \A q \in InputTodos : q.id # r.parent_id
    /\ \E r \in InputTodos :
        /\ IsOrphan(r)
        /\ \E q \in InputTodos : q.id = r.parent_id /\ q.id # r.id

\* C8: two main todos, or two subtodos of one parent, with equal priority and
\* equal status keep their input order.
C8_Stable ==
    OrgDone =>
        /\ \A g, h \in DOMAIN orgOut :
            (g < h /\ SameKey(orgOut[g].main_todo, orgOut[h].main_todo)) =>
                InputIndex(orgOut[g].main_todo) < InputIndex(orgOut[h].main_todo)
        /\ \A g \in DOMAIN orgOut :
            \A k, l \in DOMAIN orgOut[g].subtodos :
                (k < l /\ SameKey(orgOut[g].subtodos[k], orgOut[g].subtodos[l])) =>
                    InputIndex(orgOut[g].subtodos[k]) <
                        InputIndex(orgOut[g].subtodos[l])

\* two subtodos of one parent with equal keys, the larger id first in the
\* input
C8_Witness ==
    /\ OrgDone
    /\ \E g \in DOMAIN orgOut :
        /\ Len(orgOut[g].subtodos) = 2
        /\ SameKey(orgOut[g].subtodos[1], orgOut[g].subtodos[2])
        /\ orgOut[g].subtodos[1].id > orgOut[g].subtodos[2].id

\* each main todo followed by its subtodos
RECURSIVE FlattenGroups(_)
FlattenGroups(groups) ==
    IF groups = <<>> THEN <<>>
    ELSE <<Head(groups).main_todo>> \o Head(groups).subtodos \o
         FlattenGroups(Tail(groups))

\* C9: organizing the flattened output again yields the same groups with the
\* same subtodos.
C9_Idempotent ==
    OrgDone => organize_todos_hierarchically(FlattenGroups(orgOut)) = orgOut

\* an input that was not in organized order, with equal keys and subtodos in
\* its output
C9_Witness ==
    /\ OrgDone
    /\ FlattenGroups(orgOut) # orgIn
    /\ \E g \in DOMAIN orgOut :
        /\ Len(orgOut[g].subtodos) = 2
        /\ SameKey(orgOut[g].subtodos[1], orgOut[g].subtodos[2])

\* the flattening of a Vec<TodoGroup>: each main todo at depth 0, marked as
\* having subtodos iff its group has one, followed by its subtodos in group
\* order at depth 1
RECURSIVE FlatOfGroups(_)
FlatOfGroups(groups) ==
    IF groups = <<>> THEN <<>>
    ELSE LET group == Head(groups)
         IN  <<[todo |-> group.main_todo, depth |-> 0, is_main_todo |-> TRUE,
                has_subtodos |-> Len(group.subtodos) >= 1]>>
             \o [i \in DOMAIN group.subtodos |->
                    [todo |-> group.subtodos[i], depth |-> 1,
                     is_main_todo |-> FALSE, has_subtodos |-> FALSE]]
             \o FlatOfGroups(Tail(groups))

\* C30: organize_todos_flat_hierarchically returns the flattening of what
\* organize_todos_hierarchically returns for the same input.
C30_FlatIsFlattening ==
    orgPc = "flat" =>
        orgFlat = FlatOfGroups(organize_todos_hierarchically(orgIn))

\* a flat list with a main todo followed by its subtodos, of an input that
\* held a record that was dropped
C30_Witness ==
    /\ orgPc = "flat"
    /\ Len(orgFlat) < Len(orgIn)
    /\ \E i \in DOMAIN orgFlat : orgFlat[i].is_main_todo /\ orgFlat[i].has_subtodos
    /\ \E i \in DOMAIN orgFlat : orgFlat[i].depth = 1

====
